---- MODULE Spec2Model ----
(***************************************************************************)
(* Model of HolidayUpdatesChecker                                          *)
(* (.github/actions/check-holiday-updates/check_holiday_updates.py):       *)
(* the freshness scan of a directory against git history and the           *)
(* reconciliation of the outdated files with the issue tracker.            *)
(*                                                                         *)
(* File names are sequences of one-character strings, so that the glob     *)
(* filter, Path.stem, str.replace and str.title are computed as the code   *)
(* computes them.  Time is in seconds; commit timestamps are whole         *)
(* multiples of half a day before Now, so that round() meets exact halves. *)
(***************************************************************************)
EXTENDS Integers, Sequences, FiniteSets, TLC

\* ---------------------------------------------------------------- bounds
MaxFiles == 3          \* most entries in the scanned directory
MaxThreshold == 1      \* thresholds are 0..MaxThreshold days
MaxAgeHalfDays == 2    \* commits are 1..MaxAgeHalfDays half-days old

\* ------------------------------------------------------- program constants
SecondsPerDay == 86400

Now == 10 * SecondsPerDay
HalfDay == SecondsPerDay \div 2

\* ------------------------------------------------------------- file names
InitPy == <<"_", "_", "i", "n", "i", "t", "_", "_", ".", "p", "y">>
DotPy == <<".", "p", "y">>

Universe ==
  { InitPy,
    <<"a", "_", "b", ".", "p", "y">>,
    <<"a", " ", "b", ".", "p", "y">>,
    <<"b", ".", "p", "y">>,
    <<"b", ".", "t", "x", "t">> }

\* Code points of the characters that occur in the paths and names (ASCII).
CharCode(c) ==
  CASE c = " " -> 32
    [] c = "." -> 46
    [] c = "/" -> 47
    [] c = "A" -> 65
    [] c = "B" -> 66
    [] c = "_" -> 95
    [] c = "a" -> 97
    [] c = "b" -> 98
    [] c = "d" -> 100
    [] c = "h" -> 104
    [] c = "i" -> 105
    [] c = "l" -> 108
    [] c = "n" -> 110
    [] c = "o" -> 111
    [] c = "p" -> 112
    [] c = "s" -> 115
    [] c = "t" -> 116
    [] c = "x" -> 120
    [] c = "y" -> 121

IsCased(c) == (CharCode(c) >= 65 /\ CharCode(c) <= 90) \/ (CharCode(c) >= 97 /\ CharCode(c) <= 122)

Upper(c) == CASE c = "a" -> "A" [] c = "b" -> "B" [] OTHER -> c

Lower(c) == CASE c = "A" -> "a" [] c = "B" -> "b" [] OTHER -> c

\* str comparison: lexicographic by code point, a proper prefix is smaller.
RECURSIVE StrLess(_, _)
StrLess(s, t) ==
  IF t = <<>> THEN FALSE
  ELSE IF s = <<>> THEN TRUE
  ELSE IF CharCode(Head(s)) # CharCode(Head(t)) THEN CharCode(Head(s)) < CharCode(Head(t))
  ELSE StrLess(Tail(s), Tail(t))

\* directory.glob("*.py"): the name ends in ".py".
GlobPy(name) ==
  Len(name) >= Len(DotPy) /\ SubSeq(name, Len(name) - Len(DotPy) + 1, Len(name)) = DotPy

\* Path.stem: the name without its last suffix; a leading or a trailing dot
\* starts no suffix.
Stem(name) ==
  LET dots == { i \in 1..Len(name) : name[i] = "." }
      last == IF dots = {} THEN 0 ELSE CHOOSE i \in dots : \A j \in dots : j <= i
  IN IF last > 1 /\ last < Len(name) THEN SubSeq(name, 1, last - 1) ELSE name

\* str.replace("_", " ")
ReplaceUnderscore(s) == [i \in 1..Len(s) |-> IF s[i] = "_" THEN " " ELSE s[i]]

\* str.title(): a cased character is upper-cased when it follows an uncased
\* one (or starts the string), lower-cased otherwise.
Title(s) ==
  [i \in 1..Len(s) |->
     IF i = 1 \/ ~IsCased(s[i - 1]) THEN Upper(s[i]) ELSE Lower(s[i])]

extract_name_from_path(name) == Title(ReplaceUnderscore(Stem(name)))

TitlePrefix == <<"[Holiday Updates] Update required: ">>

create_issue_title(file_info) == TitlePrefix \o file_info.name

\* ------------------------------------------------------------ git history
\* round(x / 86400) for x >= 0: to the nearest whole day, an exact half to
\* the even neighbour.
RoundDays(seconds) ==
  LET q == seconds \div SecondsPerDay
      r == seconds % SecondsPerDay
  IN IF 2 * r < SecondsPerDay THEN q
     ELSE IF 2 * r > SecondsPerDay THEN q + 1
     ELSE IF q % 2 = 0 THEN q ELSE q + 1

Timestamps == { Now - h * HalfDay : h \in 1..MaxAgeHalfDays }

\* What one `git log -1 --format=%ct` query gives: a non-zero exit
\* (CalledProcessError under check=True), or exit 0 with a stdout that is
\* empty (<<>>) or holds the commit's timestamp (<<ts>>).
Failed == [ok |-> FALSE, stdout |-> <<>>]
Completed(out) == [ok |-> TRUE, stdout |-> out]
QueryOutcome == {Failed, Completed(<<>>)} \cup { Completed(<<t>>) : t \in Timestamps }

\* The history of one file as the queries see it: `git status`, then the
\* rename-following, the plain and the all-refs query.  Each query may fail
\* or come back empty on its own; when the rename-following and the plain
\* query both name a commit it is the same one, the latest commit on HEAD
\* that touches the path.  The all-refs query may name any commit.
GitHistory ==
  { h \in [status : BOOLEAN, follow : QueryOutcome, plain : QueryOutcome,
           all : QueryOutcome] :
      (h.follow.stdout # <<>> /\ h.plain.stdout # <<>>) => h.follow = h.plain }

Raised == [ok |-> FALSE, val |-> 0]
Returned(v) == [ok |-> TRUE, val |-> v]

\* The `for cmd in git_commands` loop: `result` is the last query that
\* exited 0 (<<>> stands for None); the loop stops at the first one whose
\* stdout is not empty.
RECURSIVE GitCommandLoop(_, _)
GitCommandLoop(cmds, result) ==
  IF cmds = <<>> THEN result
  ELSE IF ~Head(cmds).ok THEN GitCommandLoop(Tail(cmds), result)
  ELSE IF Head(cmds).stdout # <<>> THEN <<Head(cmds)>>
  ELSE GitCommandLoop(Tail(cmds), <<Head(cmds)>>)

get_file_age_days(h) ==
  IF ~h.status THEN Raised
  ELSE LET result == GitCommandLoop(<<h.follow, h.plain, h.all>>, <<>>)
       IN IF result = <<>> \/ result[1].stdout = <<>> THEN Raised
          ELSE Returned(RoundDays(Now - result[1].stdout[1]))

get_last_commit_date(h) ==
  IF ~h.plain.ok \/ h.plain.stdout = <<>> THEN Raised
  ELSE Returned(h.plain.stdout[1])

\* ---------------------------------------------------------------- state
VARIABLES
  pc,              \* "start", "scan", "process", "returned" or "raised"
  dir_exists,      \* directory.exists()
  dir_entries,     \* the names of the directory's entries
  threshold_days,  \* self.threshold_days
  dry_run,         \* self.dry_run
  repo,            \* self.repo is set (the tracker client was initialized)
  issues,          \* titles of the tracker's open issues, newest first
  python_files,    \* scan_directory: python_files
  scan_idx,        \* scan_directory: position of its loop in python_files
  scan_files,      \* scan_directory: its local outdated_files
  outdated_files,  \* run: outdated_files, assigned when check_freshness returns
  proc_idx,        \* process_outdated_files: position of its loop
  stats,           \* process_outdated_files: stats
  result,          \* <<>> until run returns, then <<the returned dictionary>>
  run_no,          \* 1, or 2 when the reconciliation is being run again
  ages,            \* history: <<name, age_days>> of every file whose age was resolved
  git_lookups,     \* history: number of files whose history was queried
  log,             \* history: the path and the outcome of each record reconciled
  issues_before    \* history: `issues` when run started

vars ==
  << pc, dir_exists, dir_entries, threshold_days, dry_run, repo, issues,
     python_files, scan_idx, scan_files, outdated_files, proc_idx, stats,
     result, run_no, ages, git_lookups, log, issues_before >>

FilesPath == <<"h", "o", "l", "i", "d", "a", "y", "s">>

Directories == { d \in SUBSET Universe : Cardinality(d) <= MaxFiles }

\* The orders in which the filesystem may enumerate a set of entries.
RECURSIVE Enumerations(_)
Enumerations(d) ==
  IF d = {} THEN { <<>> }
  ELSE UNION { { <<x>> \o q : q \in Enumerations(d \ {x}) } : x \in d }

EligibleNames == { n \in Universe : GlobPy(n) /\ n # InitPy }

KnownTitles == { TitlePrefix \o extract_name_from_path(n) : n \in EligibleNames }

\* The tracker before the run: any of the titles this directory can give
\* rise to may already be open.
RECURSIVE Sorted(_)
Sorted(S) ==
  IF S = {} THEN <<>>
  ELSE LET least == CHOOSE x \in S : \A y \in S \ {x} : StrLess(Tail(x), Tail(y))
       IN <<least>> \o Sorted(S \ {least})

TrackerStates == { Sorted(S) : S \in SUBSET KnownTitles }

NoStats == [created |-> 0, skipped |-> 0, errors |-> 0]

Init ==
  /\ pc = "start"
  /\ dir_exists \in BOOLEAN
  /\ dir_entries \in (IF dir_exists THEN Directories ELSE { {} })
  /\ threshold_days \in 0..MaxThreshold
  /\ dry_run \in BOOLEAN
  /\ repo \in BOOLEAN
  /\ issues \in TrackerStates
  /\ python_files = <<>>
  /\ scan_idx = 1
  /\ scan_files = <<>>
  /\ outdated_files = <<>>
  /\ proc_idx = 1
  /\ stats = NoStats
  /\ result = <<>>
  /\ run_no = 1
  /\ ages = <<>>
  /\ git_lookups = 0
  /\ log = <<>>
  /\ issues_before = issues

\* -------------------------------------------------------- scan_directory
RECURSIVE SelectSeq2(_, _)
SelectSeq2(q, keep) ==
  IF q = <<>> THEN <<>>
  ELSE IF keep[1] THEN <<Head(q)>> \o SelectSeq2(Tail(q), Tail(keep))
  ELSE SelectSeq2(Tail(q), Tail(keep))

\* all_files = list(directory.glob("*.py"))
GlobAllFiles(entries) == SelectSeq2(entries, [i \in 1..Len(entries) |-> GlobPy(entries[i])])

\* python_files = [f for f in all_files if f.name != "__init__.py"]
PythonFiles(all_files) ==
  SelectSeq2(all_files, [i \in 1..Len(all_files) |-> all_files[i] # InitPy])

\* str(file_path.relative_to(self.repo_path))
RelativePath(name) == FilesPath \o <<"/">> \o name

\* last_modified is kept as the timestamp that isoformat() renders.
FileInfo(name, age_days, last_modified, threshold) ==
  [ path |-> RelativePath(name),
    name |-> extract_name_from_path(name),
    age_days |-> age_days,
    last_modified |-> last_modified,
    threshold_days |-> threshold,
    directory_type |-> FilesPath ]

IsOutdatedOrEqual(age_days, threshold) == age_days >= threshold

\* age_days > threshold_days
IsOutdated(age_days, threshold) == age_days > threshold

\* scan_file variants: a failed lookup skips the file; a record is put in
\* front of the list.
scan_file_skipping(file_path, h, threshold, found) ==
  LET age == get_file_age_days(h)
      last_modified == get_last_commit_date(h)
  IN IF ~age.ok THEN [raised |-> FALSE, outdated |-> found]
     ELSE IF IsOutdated(age.val, threshold)
     THEN IF ~last_modified.ok THEN [raised |-> FALSE, outdated |-> found]
          ELSE [raised |-> FALSE,
                outdated |-> Append(found, FileInfo(file_path, age.val,
                                                    last_modified.val, threshold))]
     ELSE [raised |-> FALSE, outdated |-> found]

scan_file_prepending(file_path, h, threshold, found) ==
  LET age == get_file_age_days(h)
      last_modified == get_last_commit_date(h)
  IN IF ~age.ok THEN [raised |-> TRUE, outdated |-> found]
     ELSE IF IsOutdated(age.val, threshold)
     THEN IF ~last_modified.ok THEN [raised |-> TRUE, outdated |-> found]
          ELSE [raised |-> FALSE,
                outdated |-> <<FileInfo(file_path, age.val,
                                        last_modified.val, threshold)>> \o found]
     ELSE [raised |-> FALSE, outdated |-> found]

\* The body of `for file_path in python_files`, for a file whose git
\* history is h: a RuntimeError of either lookup is not caught; a file
\* older than the threshold is appended to the list.
scan_file(file_path, h, threshold, found) ==
  LET age == get_file_age_days(h)
      last_modified == get_last_commit_date(h)
  IN IF ~age.ok THEN [raised |-> TRUE, outdated |-> found]
     ELSE IF IsOutdated(age.val, threshold)
     THEN IF ~last_modified.ok THEN [raised |-> TRUE, outdated |-> found]
          ELSE [raised |-> FALSE,
                outdated |-> Append(found, FileInfo(file_path, age.val,
                                                    last_modified.val, threshold))]
     ELSE [raised |-> FALSE, outdated |-> found]

MissingDirectoryRaises(exists) == IF exists THEN "scan" ELSE "raised"

\* `if not directory.exists(): return outdated_files`
AfterExistsCheck(exists) == IF exists THEN "scan" ELSE "process"

ScanVars == << python_files, scan_idx, scan_files, ages, git_lookups >>
ProcessVars == << proc_idx, stats, log, issues, issues_before, run_no >>
ConfigVars == << dir_exists, dir_entries, threshold_days, dry_run, repo >>

\* run -> check_freshness -> scan_directory, up to its loop: a missing
\* directory returns the empty list at once; otherwise glob lists the
\* entries in whatever order the filesystem enumerates them.
CheckFreshness ==
  /\ pc = "start"
  /\ pc' = AfterExistsCheck(dir_exists)
  /\ IF pc' = "process"
     THEN /\ outdated_files' = <<>>
          /\ UNCHANGED python_files
     ELSE IF pc' = "scan"
     THEN /\ \E listing \in Enumerations(dir_entries) :
               python_files' = PythonFiles(GlobAllFiles(listing))
          /\ UNCHANGED outdated_files
     ELSE UNCHANGED << python_files, outdated_files >>
  /\ UNCHANGED << scan_idx, scan_files, ages, git_lookups, result >>
  /\ UNCHANGED ProcessVars
  /\ UNCHANGED ConfigVars

\* One iteration of the loop of scan_directory.  A RuntimeError leaves
\* scan_directory, check_freshness and run.
ScanFile ==
  /\ pc = "scan"
  /\ scan_idx <= Len(python_files)
  /\ \E h \in GitHistory :
       LET file_path == python_files[scan_idx]
           age == get_file_age_days(h)
           out == scan_file(file_path, h, threshold_days, scan_files)
       IN /\ git_lookups' = git_lookups + 1
          /\ ages' = IF age.ok THEN Append(ages, <<file_path, age.val>>) ELSE ages
          /\ scan_files' = out.outdated
          /\ IF out.raised
             THEN pc' = "raised" /\ UNCHANGED scan_idx
             ELSE pc' = "scan" /\ scan_idx' = scan_idx + 1
  /\ UNCHANGED << python_files, outdated_files, result >>
  /\ UNCHANGED ProcessVars
  /\ UNCHANGED ConfigVars

\* The loop is over: scan_directory and check_freshness return the list.
ScanReturn ==
  /\ pc = "scan"
  /\ scan_idx > Len(python_files)
  /\ pc' = "process"
  /\ outdated_files' = scan_files
  /\ UNCHANGED << result >>
  /\ UNCHANGED ScanVars
  /\ UNCHANGED ProcessVars
  /\ UNCHANGED ConfigVars

\* ------------------------------------------------------- issue tracker
\* What the tracker does to one request: it answers, or the call raises a
\* GithubException, or it raises some other exception (a network error).
\* `at` is the number of open issues the listing delivers before it fails
\* (get_issues is paginated and fetched while it is iterated).
ListOutcomes(open) ==
  { [kind |-> "ok", at |-> Len(open)] }
    \cup [kind : {"GithubException", "Exception"}, at : 0..Len(open)]

CreateOutcomes == {"ok", "GithubException", "Exception"}

TitleIn(title, q) == \E i \in 1..Len(q) : q[i] = title

\* find_existing_issue: "found", "none" (also after a GithubException,
\* which is logged and swallowed) or "raised" (any other exception).
find_existing_issue(file_info, has_repo, open, list_out) ==
  IF ~has_repo THEN "none"
  ELSE IF TitleIn(create_issue_title(file_info), SubSeq(open, 1, list_out.at))
       THEN "found"
  ELSE IF list_out.kind = "Exception" THEN "raised"
  ELSE "none"

\* create_github_issue past its dry-run check.  ret is "True", "False" or
\* "raised"; `open` the tracker's open issues afterwards; `outcome` names
\* the path taken.  create_issue_body changes no state; an exception of it
\* surfaces as create_out = "Exception".
reconcile(file_info, has_repo, open, list_out, create_out) ==
  IF ~has_repo
  THEN [ret |-> "False", open |-> open, outcome |-> "no_repo"]
  ELSE LET existing == find_existing_issue(file_info, has_repo, open, list_out)
       IN IF existing = "raised"
          THEN [ret |-> "raised", open |-> open, outcome |-> "search_raised"]
          ELSE IF existing = "found"
          THEN [ret |-> "True", open |-> open, outcome |-> "existing"]
          ELSE IF create_out = "ok"
          THEN [ret |-> "True", open |-> <<create_issue_title(file_info)>> \o open,
                outcome |-> IF list_out.kind = "ok" THEN "created"
                            ELSE "created_after_failed_search"]
          ELSE IF create_out = "GithubException"
          THEN [ret |-> "False", open |-> open, outcome |-> "create_failed"]
          ELSE [ret |-> "raised", open |-> open, outcome |-> "create_raised"]

create_github_issue_ignoring_dry_run(file_info, is_dry_run, has_repo, open, list_out, create_out) ==
  reconcile(file_info, has_repo, open, list_out, create_out)

create_github_issue(file_info, is_dry_run, has_repo, open, list_out, create_out) ==
  IF is_dry_run
  THEN [ret |-> "True", open |-> open, outcome |-> "dry_run"]
  ELSE reconcile(file_info, has_repo, open, list_out, create_out)

CountOutcomeDroppingRaised(st, ret) ==
  IF ret = "True" THEN [st EXCEPT !.created = @ + 1]
  ELSE IF ret = "False" THEN [st EXCEPT !.errors = @ + 1]
  ELSE st

\* `if self.create_github_issue(...)`: True counts as created, False and
\* any exception as an error.
CountOutcome(st, ret) ==
  IF ret = "True" THEN [st EXCEPT !.created = @ + 1]
  ELSE [st EXCEPT !.errors = @ + 1]

\* process_record variants: an exception ends the loop; an exception is
\* not caught.
process_record_breaking(st, idx, n, ret) ==
  [ stats |-> CountOutcome(st, ret),
    idx |-> IF ret = "raised" THEN n + 1 ELSE idx + 1,
    pc |-> "process" ]

process_record_uncaught(st, idx, n, ret) ==
  IF ret = "raised" THEN [stats |-> st, idx |-> idx, pc |-> "raised"]
  ELSE [stats |-> CountOutcome(st, ret), idx |-> idx + 1, pc |-> "process"]

\* The body of `for file_info in outdated_files` (n records): the outcome
\* is counted, an exception is caught there, and the loop goes on.
process_record(st, idx, n, ret) ==
  [stats |-> CountOutcome(st, ret), idx |-> idx + 1, pc |-> "process"]

\* One iteration of the loop of process_outdated_files.
ProcessFile ==
  /\ pc = "process"
  /\ proc_idx <= Len(outdated_files)
  /\ \E list_out \in ListOutcomes(issues), create_out \in CreateOutcomes :
       LET file_info == outdated_files[proc_idx]
           out == create_github_issue(file_info, dry_run, repo, issues, list_out, create_out)
           step == process_record(stats, proc_idx, Len(outdated_files), out.ret)
       IN /\ stats' = step.stats
          /\ proc_idx' = step.idx
          /\ pc' = step.pc
          /\ issues' = out.open
          /\ log' = Append(log, [path |-> file_info.path, outcome |-> out.outcome])
  /\ UNCHANGED << outdated_files, result, issues_before, run_no >>
  /\ UNCHANGED ScanVars
  /\ UNCHANGED ConfigVars

RunResult(files, st) == [outdated_files |-> files, stats |-> st, timestamp |-> Now]

\* process_outdated_files returns its stats and run returns the result.
Return ==
  /\ pc = "process"
  /\ proc_idx > Len(outdated_files)
  /\ pc' = "returned"
  /\ result' = <<RunResult(outdated_files, stats)>>
  /\ UNCHANGED << outdated_files >>
  /\ UNCHANGED ScanVars
  /\ UNCHANGED ProcessVars
  /\ UNCHANGED ConfigVars

\* The reconciliation is run again over the same outdated records, against
\* the tracker as the first one left it.  Modelled after a first
\* reconciliation that reported no error, the case the idempotence
\* requirement is about.
ReconcileAgain ==
  /\ pc = "returned"
  /\ run_no = 1
  /\ stats.errors = 0
  /\ pc' = "process"
  /\ run_no' = 2
  /\ proc_idx' = 1
  /\ stats' = NoStats
  /\ log' = <<>>
  /\ UNCHANGED << issues, issues_before, outdated_files, result >>
  /\ UNCHANGED ScanVars
  /\ UNCHANGED ConfigVars

\* One invocation of run.
Next ==
  \/ CheckFreshness
  \/ ScanFile
  \/ ScanReturn
  \/ ProcessFile
  \/ Return

Spec == Init /\ [][Next]_vars

\* One invocation of run, and the reconciliation of its records run twice.
NextTwice ==
  \/ CheckFreshness
  \/ ScanFile
  \/ ScanReturn
  \/ ProcessFile
  \/ Return
  \/ ReconcileAgain

SpecTwice == Init /\ [][NextTwice]_vars

\* ------------------------------------------------------------ properties
ScanReturned == pc \in {"process", "returned"}

Eligible == { n \in dir_entries : GlobPy(n) /\ n # InitPy }

HasRecord(name, age_days) ==
  \E j \in DOMAIN outdated_files :
    /\ outdated_files[j].path = RelativePath(name)
    /\ outdated_files[j].age_days = age_days

\* Outcomes after which create_github_issue returned True; those in which
\* create_issue was called; those in which the issue search failed.
Satisfied == {"dry_run", "existing", "created", "created_after_failed_search"}
CreateCalled == {"created", "created_after_failed_search", "create_failed", "create_raised"}
CreateFailed == {"create_failed", "create_raised"}

LogCount(outcomes) == Cardinality({ i \in DOMAIN log : log[i].outcome \in outcomes })

IssueCount(title, open) == Cardinality({ i \in DOMAIN open : open[i] = title })

\* C1: once scan_directory has returned, every eligible file of the
\* directory has a resolved age, a file has a record in the result exactly
\* when its age is greater than the threshold (a file whose age equals the
\* threshold has none), and every record has age_days > threshold_days.
C1_OutdatedIffOlderThanThreshold ==
  (ScanReturned /\ dir_exists) =>
    /\ { ages[i][1] : i \in DOMAIN ages } = Eligible
    /\ \A i \in DOMAIN ages :
         HasRecord(ages[i][1], ages[i][2]) <=> ages[i][2] > threshold_days
    /\ \A j \in DOMAIN outdated_files :
         outdated_files[j].age_days > outdated_files[j].threshold_days
    /\ Len(outdated_files) =
         Cardinality({ i \in DOMAIN ages : ages[i][2] > threshold_days })

\* A scan returned with one file exactly as old as the threshold, left out,
\* and one older file, recorded.
C1_Witness ==
  /\ pc = "returned"
  /\ \E i, k \in DOMAIN ages :
       /\ ages[i][2] = threshold_days
       /\ ~HasRecord(ages[i][1], ages[i][2])
       /\ ages[k][2] > threshold_days
       /\ HasRecord(ages[k][1], ages[k][2])

\* C2: when the reconciliation is run a second time over the same records,
\* create_issue is not called and no title has gained more than one open
\* issue since the first run started.
C2_SecondRunCreatesNothing ==
  run_no = 2 =>
    /\ LogCount(CreateCalled) = 0
    /\ \A t \in KnownTitles : IssueCount(t, issues) <= IssueCount(t, issues_before) + 1

\* C3: in dry-run mode the tracker's open issues are what they were before
\* the run, the tracker is never asked to list or create, and every record
\* is counted as created.
C3_DryRunLeavesTracker ==
  dry_run =>
    /\ issues = issues_before
    /\ \A i \in DOMAIN log : log[i].outcome = "dry_run"
    /\ pc = "returned" =>
         /\ result[1].stats.created = Len(outdated_files)
         /\ result[1].stats.errors = 0

\* A dry run returned over two records or more, with a working client and
\* a record whose issue is not open in the tracker.
C3_Witness ==
  /\ dry_run /\ repo /\ pc = "returned"
  /\ Len(outdated_files) >= 2
  /\ issues # <<>>
  /\ \E j \in DOMAIN outdated_files : ~TitleIn(create_issue_title(outdated_files[j]), issues)

\* C4: process_outdated_files attempts the records one by one, each exactly
\* once; a record whose create_issue fails is counted in errors, and it
\* keeps no later record from being processed: at the return every record
\* was attempted and errors is the number of records that did not succeed.
C4_ErrorDoesNotStopBatch ==
  /\ pc \in {"process", "returned"} =>
       /\ Len(log) = proc_idx - 1
       /\ \A i \in DOMAIN log : log[i].path = outdated_files[i].path
       /\ stats.errors >= LogCount(CreateFailed)
       /\ stats.errors = Len(log) - LogCount(Satisfied)
       /\ stats.created = LogCount(Satisfied)
  /\ pc = "returned" => Len(log) = Len(outdated_files)

\* create_issue raised on the second of three records: all three were
\* attempted, created is 2 and errors is 1.
C4_Witness ==
  /\ pc = "returned"
  /\ Len(outdated_files) = 3
  /\ Len(log) = 3
  /\ log[1].outcome = "created"
  /\ log[2].outcome = "create_failed"
  /\ log[3].outcome = "created"
  /\ result[1].stats.created = 2
  /\ result[1].stats.errors = 1

\* C5: a record during whose issue search the tracker failed is reported as
\* failed: create_issue is not called for it and it is not counted as
\* created.
C5_SearchFailureIsReportedFailed ==
  /\ LogCount({"created_after_failed_search"}) = 0
  /\ stats.created <= LogCount({"dry_run", "existing", "created"})

\* C6: when process_outdated_files has returned, created + errors is the
\* number of records, skipped is 0, and created counts the records whose
\* issue was already open together with those whose issue was created.
C6_CreatedPlusErrorsIsTotal ==
  pc = "returned" =>
    /\ result[1].stats.created + result[1].stats.errors = Len(outdated_files)
    /\ result[1].stats.skipped = 0
    /\ result[1].stats.created >= LogCount({"existing"})
    /\ result[1].stats.created = LogCount(Satisfied)

\* Three records: one found its open issue, the search of one raised, and
\* create_issue failed for one.
C6_Witness ==
  /\ pc = "returned"
  /\ Len(outdated_files) = 3
  /\ LogCount({"existing"}) = 1
  /\ LogCount({"search_raised"}) = 1
  /\ LogCount({"create_failed"}) = 1
  /\ result[1].stats.created = 1
  /\ result[1].stats.errors = 2

\* C7 as stated: run never raises.
C7_RunNeverRaises == pc # "raised"

\* C7, amended: run raises only out of the scan, before any record is
\* reconciled and without a result; whatever the reconciliations do, run
\* returns outdated_files, stats and timestamp.
C7_RunRaisesOnlyFromScan ==
  /\ pc = "raised" =>
       /\ dir_exists
       /\ scan_idx <= Len(python_files)
       /\ proc_idx = 1
       /\ log = <<>>
       /\ result = <<>>
  /\ pc = "returned" =>
       result = << [outdated_files |-> outdated_files, stats |-> stats, timestamp |-> Now] >>

\* run returned although exceptions were raised while records were
\* reconciled; they are in stats.errors.
C7_Witness ==
  /\ pc = "returned"
  /\ LogCount({"search_raised"}) >= 1
  /\ LogCount({"create_raised"}) >= 1
  /\ result[1].stats.errors >= 2

\* C8: the scan skips no file: while it runs, every file it has passed has
\* a resolved age; a failed lookup ends it at that file, no list reaches
\* run, nothing is returned and the tracker is neither asked nor changed.
C8_HistoryFailureStopsScan ==
  /\ pc = "scan" => (Len(ages) = scan_idx - 1 /\ git_lookups = scan_idx - 1)
  /\ (ScanReturned /\ dir_exists) =>
       (Len(ages) = Len(python_files) /\ git_lookups = Len(python_files))
  /\ pc = "raised" =>
       /\ git_lookups = scan_idx
       /\ outdated_files = <<>>
       /\ result = <<>>
       /\ log = <<>>
       /\ issues = issues_before

\* The lookup failed after the scan had already found an outdated file,
\* with a working tracker client and no dry run.
C8_Witness ==
  /\ pc = "raised"
  /\ scan_idx >= 2
  /\ scan_files # <<>>
  /\ repo /\ ~dry_run

\* C9 as stated: the records are in lexicographic order of path and are
\* reconciled in that order.
C9_RecordsInLexicographicOrder ==
  ScanReturned =>
    /\ \A i, j \in DOMAIN outdated_files :
         i < j => StrLess(outdated_files[i].path, outdated_files[j].path)
    /\ \A i \in DOMAIN log : log[i].path = outdated_files[i].path

PositionOf(file_info) ==
  CHOOSE k \in DOMAIN python_files : RelativePath(python_files[k]) = file_info.path

\* C9, amended: the records are in the order in which glob enumerated the
\* files, and they are reconciled in that order.
C9_RecordsInEnumerationOrder ==
  /\ \A i, j \in DOMAIN scan_files :
       i < j => PositionOf(scan_files[i]) < PositionOf(scan_files[j])
  /\ ScanReturned =>
       /\ outdated_files = (IF dir_exists THEN scan_files ELSE <<>>)
       /\ Len(log) = proc_idx - 1
       /\ \A i \in DOMAIN log : log[i].path = outdated_files[i].path

\* Two records were reconciled whose order is not the lexicographic one.
C9_Witness ==
  /\ pc = "returned"
  /\ Len(log) >= 2
  /\ log[1].path = outdated_files[1].path
  /\ log[2].path = outdated_files[2].path
  /\ StrLess(outdated_files[2].path, outdated_files[1].path)

\* C10: with the directory missing no history is queried, the run does not
\* raise, the tracker is not asked, and run returns no outdated file and
\* zero created and errors.
C10_MissingDirectoryIsEmptyRun ==
  ~dir_exists =>
    /\ pc \notin {"scan", "raised"}
    /\ git_lookups = 0
    /\ outdated_files = <<>>
    /\ log = <<>>
    /\ issues = issues_before
    /\ pc = "returned" => result = <<RunResult(<<>>, NoStats)>>

\* run returned for a missing directory, with a working tracker client.
C10_Witness ==
  /\ ~dir_exists
  /\ pc = "returned"
  /\ repo /\ ~dry_run

\* C11: every file whose age was resolved and is above the threshold has a
\* record in the scan's list, the second lookup never failing for it, and
\* the record's last_modified is the commit its age_days was computed from.
C11_ResolvedOutdatedFileHasRecord ==
  \A i \in DOMAIN ages :
    ages[i][2] > threshold_days =>
      \E j \in DOMAIN scan_files :
        /\ scan_files[j].path = RelativePath(ages[i][1])
        /\ scan_files[j].age_days = ages[i][2]
        /\ RoundDays(Now - scan_files[j].last_modified) = ages[i][2]

====
